---- MODULE Spec2Model ----
(***************************************************************************)
(* A model of delgoden/wallet, package wallet (src/pkg/wallet/service.go,  *)
(* the Service with favorites and export/import, lines 166-674) and of its *)
(* data types (src/pkg/types/types.go).                                    *)
(*                                                                         *)
(* A Go string is modelled as a sequence of one-character strings, so that *)
(* the text formats are written and parsed character by character.         *)
(***************************************************************************)
EXTENDS Integers, Sequences, FiniteSets, TLC

(***************************************************************************)
(* Bounds of the model.                                                    *)
(***************************************************************************)
MaxAccounts == 3
MaxPayments == 2
MaxFavorites == 1
MaxUUID == 3
MaxServices == 2
MaxBalance == 2
MaxDrawn == 2
\* the bits of Money in the model (an int64 in types.go)
MoneyBits == 4

(***************************************************************************)
(* Input alphabets.                                                        *)
(***************************************************************************)
Phones == {<<"a">>, <<"b">>}
Amounts == {-1, 0, 1, 2}
Categories == {<<"f">>}
Names == {<<"n">>}
AccountIDs == {1, 2, 3}

\* the inputs of the operations in memory where files are exported and imported
FewPhones == {<<"a">>}
FewAmounts == {2}
FewAccountIDs == {1, 2}

(***************************************************************************)
(* types.go                                                                *)
(***************************************************************************)
PaymentStatusOK == <<"O", "K">>
PaymentStatusFail == <<"F", "A", "I", "L">>
PaymentStatusInProgress == <<"I", "N", "P", "R", "O", "G", "R", "E", "S", "S">>

\* Money is a signed integer of MoneyBits bits: + wraps around
MaxMoney == 2 ^ (MoneyBits - 1) - 1
MinMoney == -(2 ^ (MoneyBits - 1))
WrapMoney(n) == ((n - MinMoney) % (2 ^ MoneyBits)) + MinMoney

Account(id, phone, balance) == [ID |-> id, Phone |-> phone, Balance |-> balance]

Payment(id, accountID, amount, category, status) ==
    [ID |-> id, AccountID |-> accountID, Amount |-> amount,
     Category |-> category, Status |-> status]

Favorite(id, accountID, name, amount, category) ==
    [ID |-> id, AccountID |-> accountID, Name |-> name, Amount |-> amount,
     Category |-> category]

(***************************************************************************)
(* The errors of the package.                                              *)
(***************************************************************************)
ErrPhoneRegistered == "ErrPhoneRegistered"
ErrAmountMustBePositive == "ErrAmountMustBePositive"
ErrAccountNotFound == "ErrAccountNotFound"
ErrNotEnoughBalance == "ErrNotEnoughBalance"
ErrPaymentNotFound == "ErrPaymentNotFound"
ErrFavoriteNotFound == "ErrFavoriteNotFound"
Nil == "nil"
Panic == "panic"

(***************************************************************************)
(* strconv.FormatInt(n, 10) and strconv.Atoi.                              *)
(***************************************************************************)
Digits == <<"0", "1", "2", "3", "4", "5", "6", "7", "8", "9">>

RECURSIVE FormatNat(_)
FormatNat(n) ==
    IF n < 10 THEN <<Digits[n + 1]>>
    ELSE FormatNat(n \div 10) \o <<Digits[(n % 10) + 1]>>

FormatInt(n) == IF n < 0 THEN <<"-">> \o FormatNat(-n) ELSE FormatNat(n)

IsDigit(c) == \E d \in 1..10 : Digits[d] = c

DigitValue(c) == (CHOOSE d \in 1..10 : Digits[d] = c) - 1

RECURSIVE ParseNat(_, _)
ParseNat(s, acc) ==
    IF s = <<>> THEN acc
    ELSE ParseNat(Tail(s), acc * 10 + DigitValue(Head(s)))

\* [ok, val]: ok is FALSE where Atoi returns an error
Atoi(s) ==
    LET signed == s # <<>> /\ Head(s) \in {"-", "+"}
        body == IF signed THEN Tail(s) ELSE s
    IN  IF body = <<>> \/ \E i \in 1..Len(body) : ~IsDigit(body[i])
        THEN [ok |-> FALSE, val |-> 0]
        ELSE [ok |-> TRUE,
              val |-> IF signed /\ Head(s) = "-"
                      THEN -ParseNat(body, 0) ELSE ParseNat(body, 0)]

(***************************************************************************)
(* strings.Split(s, sep), strings.TrimSuffix(s, c) for a one-character     *)
(* separator, and the records bufio.Reader.ReadString(delim) returns until *)
(* io.EOF: each ends with delim; what follows the last delim is dropped    *)
(* with the EOF (lines 436-439, 540-543).                                  *)
(***************************************************************************)
RECURSIVE Split(_, _)
Split(s, sep) ==
    IF \A i \in 1..Len(s) : s[i] # sep THEN <<s>>
    ELSE LET k == CHOOSE i \in 1..Len(s) :
                    /\ s[i] = sep
                    /\ \A j \in 1..(i - 1) : s[j] # sep
         IN  <<SubSeq(s, 1, k - 1)>> \o Split(SubSeq(s, k + 1, Len(s)), sep)

TrimSuffix(s, c) ==
    IF s # <<>> /\ s[Len(s)] = c THEN SubSeq(s, 1, Len(s) - 1) ELSE s

RECURSIVE ReadStrings(_, _)
ReadStrings(data, delim) ==
    IF \A i \in 1..Len(data) : data[i] # delim THEN <<>>
    ELSE LET k == CHOOSE i \in 1..Len(data) :
                    /\ data[i] = delim
                    /\ \A j \in 1..(i - 1) : data[j] # delim
         IN  <<SubSeq(data, 1, k)>> \o ReadStrings(SubSeq(data, k + 1, Len(data)), delim)

RECURSIVE Concat(_)
Concat(ss) == IF ss = <<>> THEN <<>> ELSE Head(ss) \o Concat(Tail(ss))

(***************************************************************************)
(* Files: a file that does not exist, or one that holds data.              *)
(***************************************************************************)
NoFile == [exists |-> FALSE, data |-> <<>>]
File(data) == [exists |-> TRUE, data |-> data]

Dir(acc, pay, fav) == [accounts |-> acc, payments |-> pay, favorites |-> fav]
EmptyDir == Dir(NoFile, NoFile, NoFile)

\* dump directories written by hand or by another program: records in an
\* order no Export of this model writes; a payment of an account not dumped
ExternalDirs ==
    {Dir(File(<<"2", ";", "y", ";", "0", "\n", "1", ";", "z", ";", "0", "\n">>),
         NoFile, NoFile)}

ErrNotExist == "ErrNotExist"
ErrSyntax == "ErrSyntax"

(***************************************************************************)
(* uuid.New().String(): the n-th token issued; tokens never repeat.        *)
(***************************************************************************)
NewUUID(n) == <<"u">> \o FormatInt(n)

(***************************************************************************)
(* The state: the fields of Service, and the environment.                  *)
(***************************************************************************)
VARIABLES
    nextAccountID, accounts, payments, favorites, \* the fields of the Service
    uuids,      \* the number of tokens uuid.New() has issued
    file,       \* the file of ExportToFile and ImportFromFile
    dir,        \* the directory of Export and Import
    exported,   \* history: the Service that wrote dir, when dir was new to it
    services,   \* the number of Services constructed
    deposited,  \* history, kept by DepositRecorded: the sum of the deposits
                \* each account ID has taken
    last        \* the call that has just returned, and what it returned

svcVars == <<nextAccountID, accounts, payments, favorites>>
fsVars == <<file, dir, exported>>
vars == <<nextAccountID, accounts, payments, favorites, uuids, file, dir, exported,
          services, deposited, last>>

\* the Service as one value
Service(n, accs, pays, favs) ==
    [nextAccountID |-> n, accounts |-> accs, payments |-> pays, favorites |-> favs]

Self == Service(nextAccountID, accounts, payments, favorites)

\* &Service{}
NewService == Service(0, <<>>, <<>>, <<>>)

NotExported == [fresh |-> FALSE, s |-> NewService]

\* no Deposit has been made
NoDeposits == [id \in AccountIDs |-> 0]

\* the result of a call: the Service after it, the error, the tokens issued
Result(s, err, ret, used) == [s |-> s, err |-> err, ret |-> ret, used |-> used]

NoRet == [ID |-> 0, Token |-> <<>>]
RetAccount(a) == [ID |-> a.ID, Token |-> <<>>]
RetFound(a) == [ID |-> a.ID, Token |-> <<>>, Account |-> a]
RetToken(t) == [ID |-> 0, Token |-> t]

(***************************************************************************)
(* The linear scans: the index of the first entry with the ID, 0 if none.  *)
(***************************************************************************)
FirstIndex(seq, id) ==
    IF \E i \in 1..Len(seq) : seq[i].ID = id
    THEN CHOOSE i \in 1..Len(seq) :
            /\ seq[i].ID = id
            /\ \A j \in 1..(i - 1) : seq[j].ID # id
    ELSE 0

\* FindAccountByID with the break outside the if: only the first account is
\* looked at
FindAccountByIDFirstOnly(s, accountID) ==
    IF s.accounts # <<>> /\ s.accounts[1].ID = accountID THEN 1 ELSE 0

FindAccountByID(s, accountID) == FirstIndex(s.accounts, accountID)
FindPaymentByID(s, paymentID) == FirstIndex(s.payments, paymentID)
FindFavoriteByID(s, favoriteID) == FirstIndex(s.favorites, favoriteID)

(***************************************************************************)
(* The operations on accounts, payments and favorites.                     *)
(***************************************************************************)
\* RegisterAccount taking the next ID before it looks for the phone
RegisterAccountOpEager(s, phone) ==
    IF \E i \in 1..Len(s.accounts) : s.accounts[i].Phone = phone
    THEN Result([s EXCEPT !.nextAccountID = @ + 1], ErrPhoneRegistered, NoRet, 0)
    ELSE LET account == Account(s.nextAccountID + 1, phone, 0)
         IN  Result([s EXCEPT !.nextAccountID = @ + 1,
                              !.accounts = Append(@, account)],
                    Nil, RetAccount(account), 0)

RegisterAccountOp(s, phone) ==
    IF \E i \in 1..Len(s.accounts) : s.accounts[i].Phone = phone
    THEN Result(s, ErrPhoneRegistered, NoRet, 0)
    ELSE LET account == Account(s.nextAccountID + 1, phone, 0)
         IN  Result([s EXCEPT !.nextAccountID = @ + 1,
                              !.accounts = Append(@, account)],
                    Nil, RetAccount(account), 0)

\* Deposit looking for the account before it checks the amount
DepositOpLookupFirst(s, accountID, amount) ==
    LET i == FirstIndex(s.accounts, accountID)
    IN  IF i = 0 THEN Result(s, ErrAccountNotFound, NoRet, 0)
        ELSE IF amount <= 0 THEN Result(s, ErrAmountMustBePositive, NoRet, 0)
        ELSE Result([s EXCEPT !.accounts[i].Balance = WrapMoney(@ + amount)],
                    Nil, NoRet, 0)

DepositOp(s, accountID, amount) ==
    IF amount <= 0 THEN Result(s, ErrAmountMustBePositive, NoRet, 0)
    ELSE LET i == FirstIndex(s.accounts, accountID)
         IN  IF i = 0 THEN Result(s, ErrAccountNotFound, NoRet, 0)
             ELSE Result([s EXCEPT !.accounts[i].Balance = WrapMoney(@ + amount)],
                         Nil, NoRet, 0)

\* Pay without the balance check of line 255
PayOpUnchecked(s, accountID, amount, category, uuid) ==
    IF amount <= 0 THEN Result(s, ErrAmountMustBePositive, NoRet, 0)
    ELSE LET i == FirstIndex(s.accounts, accountID)
         IN  IF i = 0 THEN Result(s, ErrAccountNotFound, NoRet, 0)
             ELSE LET payment == Payment(uuid, accountID, amount, category,
                                         PaymentStatusInProgress)
                  IN  Result([s EXCEPT !.accounts[i].Balance = @ - amount,
                                       !.payments = Append(@, payment)],
                             Nil, RetToken(uuid), 1)

\* Pay with the balance check of line 255 off by one (<= for <)
PayOpStrict(s, accountID, amount, category, uuid) ==
    IF amount <= 0 THEN Result(s, ErrAmountMustBePositive, NoRet, 0)
    ELSE LET i == FirstIndex(s.accounts, accountID)
         IN  IF i = 0 THEN Result(s, ErrAccountNotFound, NoRet, 0)
             ELSE IF s.accounts[i].Balance <= amount
             THEN Result(s, ErrNotEnoughBalance, NoRet, 0)
             ELSE LET payment == Payment(uuid, accountID, amount, category,
                                         PaymentStatusInProgress)
                  IN  Result([s EXCEPT !.accounts[i].Balance = @ - amount,
                                       !.payments = Append(@, payment)],
                             Nil, RetToken(uuid), 1)

\* Pay that refuses only an amount below 0 (< for <= at line 239)
PayOpNonNegative(s, accountID, amount, category, uuid) ==
    IF amount < 0 THEN Result(s, ErrAmountMustBePositive, NoRet, 0)
    ELSE LET i == FirstIndex(s.accounts, accountID)
         IN  IF i = 0 THEN Result(s, ErrAccountNotFound, NoRet, 0)
             ELSE IF s.accounts[i].Balance < amount
             THEN Result(s, ErrNotEnoughBalance, NoRet, 0)
             ELSE LET payment == Payment(uuid, accountID, amount, category,
                                         PaymentStatusInProgress)
                  IN  Result([s EXCEPT !.accounts[i].Balance = @ - amount,
                                       !.payments = Append(@, payment)],
                             Nil, RetToken(uuid), 1)

PayOp(s, accountID, amount, category, uuid) ==
    IF amount <= 0 THEN Result(s, ErrAmountMustBePositive, NoRet, 0)
    ELSE LET i == FirstIndex(s.accounts, accountID)
         IN  IF i = 0 THEN Result(s, ErrAccountNotFound, NoRet, 0)
             ELSE IF s.accounts[i].Balance < amount
             THEN Result(s, ErrNotEnoughBalance, NoRet, 0)
             ELSE LET payment == Payment(uuid, accountID, amount, category,
                                         PaymentStatusInProgress)
                  IN  Result([s EXCEPT !.accounts[i].Balance = @ - amount,
                                       !.payments = Append(@, payment)],
                             Nil, RetToken(uuid), 1)

\* Reject that credits only a payment not yet failed
RejectOpOnce(s, paymentID) ==
    LET p == FirstIndex(s.payments, paymentID)
    IN  IF p = 0 THEN Result(s, ErrPaymentNotFound, NoRet, 0)
        ELSE IF s.payments[p].Status = PaymentStatusFail
        THEN Result(s, Nil, NoRet, 0)
        ELSE LET failed == [s EXCEPT !.payments[p].Status = PaymentStatusFail]
                 i == FirstIndex(failed.accounts, s.payments[p].AccountID)
             IN  IF i = 0 THEN Result(failed, Panic, NoRet, 0)
                 ELSE Result([failed EXCEPT !.accounts[i].Balance =
                                                WrapMoney(@ + s.payments[p].Amount)],
                             Nil, NoRet, 0)

\* Reject that puts a failed payment back in progress
RejectOpReopen(s, paymentID) ==
    LET p == FirstIndex(s.payments, paymentID)
    IN  IF p = 0 THEN Result(s, ErrPaymentNotFound, NoRet, 0)
        ELSE LET status == IF s.payments[p].Status = PaymentStatusFail
                           THEN PaymentStatusInProgress ELSE PaymentStatusFail
                 failed == [s EXCEPT !.payments[p].Status = status]
                 i == FirstIndex(failed.accounts, s.payments[p].AccountID)
             IN  IF i = 0 THEN Result(failed, Panic, NoRet, 0)
                 ELSE Result([failed EXCEPT !.accounts[i].Balance =
                                                WrapMoney(@ + s.payments[p].Amount)],
                             Nil, NoRet, 0)

\* the account lookup's error is never looked at (line 317 tests err, which
\* is nil there): with no owning account, line 321 dereferences nil
RejectOp(s, paymentID) ==
    LET p == FindPaymentByID(s, paymentID)
    IN  IF p = 0 THEN Result(s, ErrPaymentNotFound, NoRet, 0)
        ELSE LET failed == [s EXCEPT !.payments[p].Status = PaymentStatusFail]
                 i == FindAccountByID(failed, s.payments[p].AccountID)
             IN  IF i = 0 THEN Result(failed, Panic, NoRet, 0)
                 ELSE Result([failed EXCEPT !.accounts[i].Balance =
                                                WrapMoney(@ + s.payments[p].Amount)],
                             Nil, NoRet, 0)

\* Repeat paying under the ID of the payment it repeats
RepeatOpSameID(s, paymentID, uuid) ==
    LET p == FirstIndex(s.payments, paymentID)
    IN  IF p = 0 THEN Result(s, ErrPaymentNotFound, NoRet, 0)
        ELSE PayOp(s, s.payments[p].AccountID, s.payments[p].Amount,
                   s.payments[p].Category, paymentID)

\* Repeat that appends the payment and takes nothing from the account
RepeatOpNoDebit(s, paymentID, uuid) ==
    LET p == FirstIndex(s.payments, paymentID)
    IN  IF p = 0 THEN Result(s, ErrPaymentNotFound, NoRet, 0)
        ELSE LET payment == Payment(uuid, s.payments[p].AccountID,
                                    s.payments[p].Amount, s.payments[p].Category,
                                    PaymentStatusInProgress)
             IN  Result([s EXCEPT !.payments = Append(@, payment)],
                        Nil, RetToken(uuid), 1)

RepeatOp(s, paymentID, uuid) ==
    LET p == FindPaymentByID(s, paymentID)
    IN  IF p = 0 THEN Result(s, ErrPaymentNotFound, NoRet, 0)
        ELSE PayOp(s, s.payments[p].AccountID, s.payments[p].Amount,
                   s.payments[p].Category, uuid)

FavoritePaymentOp(s, paymentID, name, uuid) ==
    LET p == FindPaymentByID(s, paymentID)
    IN  IF p = 0 THEN Result(s, ErrPaymentNotFound, NoRet, 0)
        ELSE LET favorite == Favorite(uuid, s.payments[p].AccountID, name,
                                      s.payments[p].Amount, s.payments[p].Category)
             IN  Result([s EXCEPT !.favorites = Append(@, favorite)],
                        Nil, RetToken(uuid), 1)

\* PayFromFavorite as a Pay of what the favorite holds: balance check and debit
PayFromFavoriteOpDebit(s, favoriteID, uuid) ==
    LET f == FirstIndex(s.favorites, favoriteID)
    IN  IF f = 0 THEN Result(s, ErrFavoriteNotFound, NoRet, 0)
        ELSE PayOp(s, s.favorites[f].AccountID, s.favorites[f].Amount,
                   s.favorites[f].Category, uuid)

PayFromFavoriteOp(s, favoriteID, uuid) ==
    LET f == FindFavoriteByID(s, favoriteID)
    IN  IF f = 0 THEN Result(s, ErrFavoriteNotFound, NoRet, 0)
        ELSE LET payment == Payment(uuid, s.favorites[f].AccountID,
                                    s.favorites[f].Amount, s.favorites[f].Category,
                                    PaymentStatusInProgress)
             IN  Result([s EXCEPT !.payments = Append(@, payment)],
                        Nil, RetToken(uuid), 1)

(***************************************************************************)
(* ExportToFile and ImportFromFile: the accounts in one file, each record  *)
(* ended by "|".                                                           *)
(***************************************************************************)
AccountRecord(a, end) ==
    FormatInt(a.ID) \o <<";">> \o a.Phone \o <<";">> \o FormatInt(a.Balance) \o <<end>>

PaymentRecord(p) ==
    p.ID \o <<";">> \o FormatInt(p.AccountID) \o <<";">> \o FormatInt(p.Amount)
         \o <<";">> \o p.Category \o <<";">> \o p.Status \o <<"\n">>

FavoriteRecord(f) ==
    f.ID \o <<";">> \o FormatInt(f.AccountID) \o <<";">> \o f.Name \o <<";">>
         \o FormatInt(f.Amount) \o <<";">> \o f.Category \o <<"\n">>

\* os.Create truncates: the file exists afterwards, also with no account
ExportToFileOp(s) ==
    File(Concat([i \in 1..Len(s.accounts) |-> AccountRecord(s.accounts[i], "|")]))

\* an index past the fields of a record panics (accSls[2], line 448)
RECURSIVE ImportFromFileRecords(_, _)
ImportFromFileRecords(s, recs) ==
    IF recs = <<>> THEN Result(s, Nil, NoRet, 0)
    ELSE LET accSls == Split(Head(recs), ";")
             ID == Atoi(accSls[1])
         IN  IF ~ID.ok THEN Result(s, ErrSyntax, NoRet, 0)
             ELSE IF Len(accSls) < 3 THEN Result(s, Panic, NoRet, 0)
             ELSE LET Balance == Atoi(TrimSuffix(accSls[3], "|"))
                  IN  IF ~Balance.ok THEN Result(s, ErrSyntax, NoRet, 0)
                      ELSE ImportFromFileRecords(
                               [s EXCEPT !.accounts =
                                   Append(@, Account(ID.val, accSls[2], Balance.val))],
                               Tail(recs))

ImportFromFileOp(s, f) ==
    IF ~f.exists THEN Result(s, ErrNotExist, NoRet, 0)
    ELSE ImportFromFileRecords(s, ReadStrings(f.data, "|"))

(***************************************************************************)
(* Export and Import: accounts.dump, payments.dump and favorites.dump in a *)
(* directory, one record per line.  Export writes a file only for a        *)
(* collection that is not empty; Import skips a file that does not exist.  *)
(***************************************************************************)
ExportOp(s, d) ==
    Dir(IF Len(s.accounts) # 0
        THEN File(Concat([i \in 1..Len(s.accounts) |->
                            AccountRecord(s.accounts[i], "\n")]))
        ELSE d.accounts,
        IF Len(s.payments) # 0
        THEN File(Concat([i \in 1..Len(s.payments) |-> PaymentRecord(s.payments[i])]))
        ELSE d.payments,
        IF Len(s.favorites) # 0
        THEN File(Concat([i \in 1..Len(s.favorites) |-> FavoriteRecord(s.favorites[i])]))
        ELSE d.favorites)

\* the accounts of Import appended as ImportFromFile appends them: without
\* the lookup of line 556
RECURSIVE ImportAccountsAppendAll(_, _)
ImportAccountsAppendAll(s, lines) ==
    IF lines = <<>> THEN Result(s, Nil, NoRet, 0)
    ELSE LET accSls == Split(TrimSuffix(Head(lines), "\n"), ";")
             ID == Atoi(accSls[1])
         IN  IF ~ID.ok THEN Result(s, ErrSyntax, NoRet, 0)
             ELSE IF Len(accSls) < 3 THEN Result(s, Panic, NoRet, 0)
             ELSE LET Balance == Atoi(accSls[3])
                  IN  IF ~Balance.ok THEN Result(s, ErrSyntax, NoRet, 0)
                      ELSE ImportAccountsAppendAll(
                               [s EXCEPT !.accounts =
                                   Append(@, Account(ID.val, accSls[2], Balance.val)),
                                         !.nextAccountID = ID.val],
                               Tail(lines))

RECURSIVE ImportAccounts(_, _)
ImportAccounts(s, lines) ==
    IF lines = <<>> THEN Result(s, Nil, NoRet, 0)
    ELSE LET accSls == Split(TrimSuffix(Head(lines), "\n"), ";")
             ID == Atoi(accSls[1])
         IN  IF ~ID.ok THEN Result(s, ErrSyntax, NoRet, 0)
             ELSE IF Len(accSls) < 3 THEN Result(s, Panic, NoRet, 0)
             ELSE LET Balance == Atoi(accSls[3])
                  IN  IF ~Balance.ok THEN Result(s, ErrSyntax, NoRet, 0)
                      ELSE IF FindAccountByID(s, ID.val) # 0
                      THEN ImportAccounts(s, Tail(lines))
                      ELSE ImportAccounts(
                               [s EXCEPT !.accounts =
                                   Append(@, Account(ID.val, accSls[2], Balance.val)),
                                         !.nextAccountID = ID.val],
                               Tail(lines))

RECURSIVE ImportPayments(_, _)
ImportPayments(s, lines) ==
    IF lines = <<>> THEN Result(s, Nil, NoRet, 0)
    ELSE LET paySls == Split(TrimSuffix(Head(lines), "\n"), ";")
         IN  IF Len(paySls) < 2 THEN Result(s, Panic, NoRet, 0)
             ELSE LET AccountID == Atoi(paySls[2])
                  IN  IF ~AccountID.ok THEN Result(s, ErrSyntax, NoRet, 0)
                      ELSE IF Len(paySls) < 3 THEN Result(s, Panic, NoRet, 0)
                      ELSE LET Amount == Atoi(paySls[3])
                           IN  IF ~Amount.ok THEN Result(s, ErrSyntax, NoRet, 0)
                               ELSE IF FindPaymentByID(s, paySls[1]) # 0
                               THEN ImportPayments(s, Tail(lines))
                               ELSE IF Len(paySls) < 5 THEN Result(s, Panic, NoRet, 0)
                               ELSE ImportPayments(
                                        [s EXCEPT !.payments =
                                            Append(@, Payment(paySls[1], AccountID.val,
                                                              Amount.val, paySls[4],
                                                              paySls[5]))],
                                        Tail(lines))

RECURSIVE ImportFavorites(_, _)
ImportFavorites(s, lines) ==
    IF lines = <<>> THEN Result(s, Nil, NoRet, 0)
    ELSE LET favSls == Split(TrimSuffix(Head(lines), "\n"), ";")
         IN  IF Len(favSls) < 2 THEN Result(s, Panic, NoRet, 0)
             ELSE LET AccountID == Atoi(favSls[2])
                  IN  IF ~AccountID.ok THEN Result(s, ErrSyntax, NoRet, 0)
                      ELSE IF Len(favSls) < 4 THEN Result(s, Panic, NoRet, 0)
                      ELSE LET Amount == Atoi(favSls[4])
                           IN  IF ~Amount.ok THEN Result(s, ErrSyntax, NoRet, 0)
                               ELSE IF FindFavoriteByID(s, favSls[1]) # 0
                               THEN ImportFavorites(s, Tail(lines))
                               ELSE IF Len(favSls) < 5 THEN Result(s, Panic, NoRet, 0)
                               ELSE ImportFavorites(
                                        [s EXCEPT !.favorites =
                                            Append(@, Favorite(favSls[1], AccountID.val,
                                                               favSls[3], Amount.val,
                                                               favSls[5]))],
                                        Tail(lines))

ImportOp(s, d) ==
    LET acc == IF d.accounts.exists
               THEN ImportAccounts(s, ReadStrings(d.accounts.data, "\n"))
               ELSE Result(s, Nil, NoRet, 0)
        pay == IF d.payments.exists
               THEN ImportPayments(acc.s, ReadStrings(d.payments.data, "\n"))
               ELSE Result(acc.s, Nil, NoRet, 0)
        fav == IF d.favorites.exists
               THEN ImportFavorites(pay.s, ReadStrings(d.favorites.data, "\n"))
               ELSE Result(pay.s, Nil, NoRet, 0)
    IN  IF acc.err # Nil THEN acc
        ELSE IF pay.err # Nil THEN pay
        ELSE fav

(***************************************************************************)
(* A call: the Service becomes the result's, last records the call.        *)
(***************************************************************************)
Call(op, accountID, amount, token, text, category) ==
    [op |-> op, accountID |-> accountID, amount |-> amount, token |-> token,
     text |-> text, category |-> category]

WithinBounds(r) ==
    /\ Len(r.s.accounts) <= MaxAccounts
    /\ Len(r.s.payments) <= MaxPayments
    /\ Len(r.s.favorites) <= MaxFavorites
    /\ uuids + r.used <= MaxUUID
    /\ \A i \in 1..Len(r.s.accounts) : r.s.accounts[i].Balance <= MaxBalance

\* no call is in progress: the caller has taken the last result
Idle == [call |-> Call("", 0, 0, <<>>, <<>>, <<>>), err |-> Nil, ret |-> NoRet]

\* the call as it is, whatever the Service grows to
Apply(call, r) ==
    /\ last = Idle
    /\ nextAccountID' = r.s.nextAccountID
    /\ accounts' = r.s.accounts
    /\ payments' = r.s.payments
    /\ favorites' = r.s.favorites
    /\ uuids' = uuids + r.used
    /\ last' = [call |-> call, err |-> r.err, ret |-> r.ret]
    /\ UNCHANGED <<fsVars, services>>

CommitService(call, r) ==
    /\ last = Idle
    /\ WithinBounds(r)
    /\ Apply(call, r)

Commit(call, r) == CommitService(call, r) /\ UNCHANGED deposited

\* the tokens a caller can name: those issued so far, and one never issued
Tokens == {NewUUID(n) : n \in 1..uuids} \cup {<<"x">>}

\* the IDs of the payments and favorites the Service holds
Held == {payments[i].ID : i \in 1..Len(payments)}
            \cup {favorites[i].ID : i \in 1..Len(favorites)}

RegisterAccount(phones) ==
    \E phone \in phones :
        Commit(Call("RegisterAccount", 0, 0, <<>>, phone, <<>>),
               RegisterAccountOp(Self, phone))

Deposit(ids, amounts) ==
    \E accountID \in ids, amount \in amounts :
        Commit(Call("Deposit", accountID, amount, <<>>, <<>>, <<>>),
               DepositOp(Self, accountID, amount))

\* Deposit, with the deposits that succeed added up in deposited
DepositRecorded(ids, amounts) ==
    \E accountID \in ids, amount \in amounts :
        LET r == DepositOp(Self, accountID, amount)
        IN  /\ CommitService(Call("Deposit", accountID, amount, <<>>, <<>>, <<>>), r)
            /\ deposited' = IF r.err = Nil
                            THEN [deposited EXCEPT ![accountID] = @ + amount]
                            ELSE deposited

Pay(ids, amounts) ==
    \E accountID \in ids, amount \in amounts, category \in Categories :
        Commit(Call("Pay", accountID, amount, <<>>, <<>>, category),
               PayOp(Self, accountID, amount, category, NewUUID(uuids + 1)))

Reject(tokens) ==
    \E paymentID \in tokens :
        Commit(Call("Reject", 0, 0, paymentID, <<>>, <<>>),
               RejectOp(Self, paymentID))

\* Reject of a payment that no Reject has failed yet, or of an unknown ID
RejectOnce(tokens) ==
    \E paymentID \in tokens :
        /\ \A p \in 1..Len(payments) :
                payments[p].ID = paymentID => payments[p].Status # PaymentStatusFail
        /\ Commit(Call("Reject", 0, 0, paymentID, <<>>, <<>>),
                  RejectOp(Self, paymentID))

Repeat(tokens) ==
    \E paymentID \in tokens :
        Commit(Call("Repeat", 0, 0, paymentID, <<>>, <<>>),
               RepeatOp(Self, paymentID, NewUUID(uuids + 1)))

FavoritePayment(tokens) ==
    \E paymentID \in tokens, name \in Names :
        Commit(Call("FavoritePayment", 0, 0, paymentID, name, <<>>),
               FavoritePaymentOp(Self, paymentID, name, NewUUID(uuids + 1)))

PayFromFavorite(tokens) ==
    \E favoriteID \in tokens :
        Commit(Call("PayFromFavorite", 0, 0, favoriteID, <<>>, <<>>),
               PayFromFavoriteOp(Self, favoriteID, NewUUID(uuids + 1)))

ExportToFile ==
    /\ last = Idle
    /\ file' = ExportToFileOp(Self)
    /\ last' = [call |-> Call("ExportToFile", 0, 0, <<>>, <<>>, <<>>),
                err |-> Nil, ret |-> NoRet]
    /\ UNCHANGED <<svcVars, uuids, dir, exported, services, deposited>>

ImportFromFile ==
    Commit(Call("ImportFromFile", 0, 0, <<>>, <<>>, <<>>),
           ImportFromFileOp(Self, file))

\* Export(dir) into the directory of the last Export, or into a new one
Export ==
    \E new \in BOOLEAN :
        /\ last = Idle
        /\ new => dir # EmptyDir
        /\ dir' = ExportOp(Self, IF new THEN EmptyDir ELSE dir)
        /\ exported' = IF new \/ dir = EmptyDir
                       THEN [fresh |-> TRUE, s |-> Self]
                       ELSE NotExported
        /\ last' = [call |-> Call("Export", 0, 0, <<>>, <<>>, <<>>),
                    err |-> Nil, ret |-> NoRet]
        /\ UNCHANGED <<svcVars, uuids, file, services, deposited>>

Import ==
    Commit(Call("Import", 0, 0, <<>>, <<>>, <<>>), ImportOp(Self, dir))

\* Import(dir) once more, right after Import(dir) has returned
ImportAgain ==
    LET r == ImportOp(Self, dir)
    IN  /\ last.call.op \in {"Import", "ImportAgain"}
        /\ WithinBounds(r)
        /\ nextAccountID' = r.s.nextAccountID
        /\ accounts' = r.s.accounts
        /\ payments' = r.s.payments
        /\ favorites' = r.s.favorites
        /\ last' = [call |-> Call("ImportAgain", 0, 0, <<>>, <<>>, <<>>),
                    err |-> r.err, ret |-> r.ret]
        /\ UNCHANGED <<uuids, fsVars, services, deposited>>

\* &Service{}: the program goes on with a new Service; the files stay
Construct ==
    /\ last = Idle
    /\ Self # NewService
    /\ services < MaxServices
    /\ services' = services + 1
    /\ nextAccountID' = NewService.nextAccountID
    /\ accounts' = NewService.accounts
    /\ payments' = NewService.payments
    /\ favorites' = NewService.favorites
    /\ deposited' = NoDeposits
    /\ UNCHANGED <<uuids, fsVars, last>>

\* the caller takes the result of the call; a panic ends the program
Return ==
    /\ last # Idle
    /\ last.err # Panic
    /\ last' = Idle
    /\ UNCHANGED <<svcVars, uuids, fsVars, services, deposited>>

Init ==
    /\ nextAccountID = 0
    /\ accounts = <<>>
    /\ payments = <<>>
    /\ favorites = <<>>
    /\ uuids = 0
    /\ file = NoFile
    /\ dir = EmptyDir
    /\ exported = NotExported
    /\ services = 1
    /\ deposited = NoDeposits
    /\ last = Idle

NextMem ==
    \/ RegisterAccount(Phones)
    \/ Deposit(AccountIDs, Amounts)
    \/ Pay(AccountIDs, Amounts)
    \/ Reject(Tokens)
    \/ Repeat(Tokens)
    \/ FavoritePayment(Tokens)
    \/ PayFromFavorite(Tokens)
    \/ Return

SpecMem == Init /\ [][NextMem]_vars

(***************************************************************************)
(* The claims on the operations in memory, checked under SpecMem.          *)
(***************************************************************************)
AccountIndexes(id) == {i \in 1..Len(accounts) : accounts[i].ID = id}
PaymentIndexes(id) == {p \in 1..Len(payments) : payments[p].ID = id}
PaymentIDs == {payments[p].ID : p \in 1..Len(payments)}
Returned(op) == last.call.op = op

\* C1: in every state reachable from an empty Service by RegisterAccount,
\* Deposit, Pay, Reject, Repeat, FavoritePayment and PayFromFavorite calls,
\* failing or not, the Balance of every account is >= 0.
C1_BalanceNeverNegative ==
    \A i \in 1..Len(accounts) : accounts[i].Balance >= 0

\* a Pay has just taken the whole balance of an account
C1_Witness ==
    /\ Returned("Pay")
    /\ last.err = Nil
    /\ \E i \in AccountIndexes(last.call.accountID) : accounts[i].Balance = 0

\* C2: Pay on an existing account with amount > Balance fails with
\* ErrNotEnoughBalance and changes no account and no payment; with
\* 0 < amount <= Balance it takes exactly amount from that account, leaves the
\* other accounts as they are and appends exactly one Payment with that
\* AccountID, Amount and Category, in progress.
C2_Pay ==
    [][last'.call.op = "Pay" =>
        \A i \in AccountIndexes(last'.call.accountID) :
            /\ last'.call.amount > accounts[i].Balance =>
                /\ last'.err = ErrNotEnoughBalance
                /\ accounts' = accounts
                /\ payments' = payments
            /\ (0 < last'.call.amount /\ last'.call.amount <= accounts[i].Balance) =>
                /\ last'.err = Nil
                /\ accounts' = [accounts EXCEPT ![i].Balance = @ - last'.call.amount]
                /\ Len(payments') = Len(payments) + 1
                /\ SubSeq(payments', 1, Len(payments)) = payments
                /\ payments'[Len(payments')].AccountID = last'.call.accountID
                /\ payments'[Len(payments')].Amount = last'.call.amount
                /\ payments'[Len(payments')].Category = last'.call.category
                /\ payments'[Len(payments')].Status = PaymentStatusInProgress
    ]_vars

\* a Pay has just failed for want of balance, on an account that an earlier
\* Pay was taken from
C2_Witness ==
    /\ Returned("Pay")
    /\ last.err = ErrNotEnoughBalance
    /\ \E p \in 1..Len(payments) :
        /\ payments[p].AccountID = last.call.accountID
        /\ payments[p].Status = PaymentStatusInProgress

\* C3: Reject of an existing payment sets the status of that payment to FAIL
\* and adds exactly its Amount to the balance of the owning account, leaving
\* the other accounts and payments as they are; the status is not looked at,
\* so the Reject of a payment that has failed already succeeds and adds the
\* amount once more.
C3_Reject ==
    [][last'.call.op = "Reject" =>
        \A p \in PaymentIndexes(last'.call.token) :
            \A i \in AccountIndexes(payments[p].AccountID) :
                /\ last'.err = Nil
                /\ payments' = [payments EXCEPT ![p].Status = PaymentStatusFail]
                /\ accounts' = [accounts EXCEPT ![i].Balance = @ + payments[p].Amount]
    ]_vars

\* a Reject has just succeeded, and the account holds as much as the model
\* lets it hold
C3_Witness ==
    /\ Returned("Reject")
    /\ last.err = Nil
    /\ \E p \in PaymentIndexes(last.call.token) :
        /\ payments[p].Status = PaymentStatusFail
        /\ \E i \in AccountIndexes(payments[p].AccountID) :
            accounts[i].Balance = MaxBalance

\* C4: RegisterAccount fails with ErrPhoneRegistered and leaves the accounts
\* and nextAccountID as they are when an account has the phone; otherwise the
\* k-th registration that succeeds returns an account with ID k and balance 0
\* (only registrations add accounts here, so k is the number of accounts).
C4_RegisterAccount ==
    [][last'.call.op = "RegisterAccount" =>
        IF \E i \in 1..Len(accounts) : accounts[i].Phone = last'.call.text
        THEN /\ last'.err = ErrPhoneRegistered
             /\ accounts' = accounts
             /\ nextAccountID' = nextAccountID
        ELSE /\ last'.err = Nil
             /\ last'.ret.ID = Len(accounts) + 1
             /\ accounts' = Append(accounts,
                                   Account(Len(accounts) + 1, last'.call.text, 0))
    ]_vars

\* the second registration has just succeeded
C4_Witness ==
    /\ Returned("RegisterAccount")
    /\ last.err = Nil
    /\ last.ret.ID = 2
    /\ Len(accounts) = 2

\* C5: Deposit with amount <= 0 fails with ErrAmountMustBePositive for any
\* accountID and changes no balance; with amount > 0 and no account of that ID
\* it fails with ErrAccountNotFound and changes nothing; otherwise it adds
\* amount to the balance of exactly that account.
C5_Deposit ==
    [][last'.call.op = "Deposit" =>
        /\ last'.call.amount <= 0 =>
            /\ last'.err = ErrAmountMustBePositive
            /\ UNCHANGED svcVars
        /\ (last'.call.amount > 0 /\ AccountIndexes(last'.call.accountID) = {}) =>
            /\ last'.err = ErrAccountNotFound
            /\ UNCHANGED svcVars
        /\ last'.call.amount > 0 =>
            \A i \in AccountIndexes(last'.call.accountID) :
                /\ last'.err = Nil
                /\ accounts' = [accounts EXCEPT ![i].Balance = @ + last'.call.amount]
                /\ UNCHANGED <<nextAccountID, payments, favorites>>
    ]_vars

\* a Deposit of an amount <= 0 to an account that does not exist has just
\* failed, after a Deposit that succeeded
C5_Witness ==
    /\ Returned("Deposit")
    /\ last.err = ErrAmountMustBePositive
    /\ AccountIndexes(last.call.accountID) = {}
    /\ \E i \in 1..Len(accounts) : accounts[i].Balance > 0

\* C6: Repeat of an existing payment is a Pay of its AccountID, Amount and
\* Category against the balance of now: it appends a Payment in progress with
\* another ID and the same AccountID, Amount and Category, takes the amount
\* from the account once more and leaves the repeated payment as it is; with
\* a balance below the amount it fails with ErrNotEnoughBalance and changes
\* nothing; an unknown paymentID fails with ErrPaymentNotFound.
C6_Repeat ==
    [][last'.call.op = "Repeat" =>
        /\ PaymentIndexes(last'.call.token) = {} =>
            /\ last'.err = ErrPaymentNotFound
            /\ UNCHANGED svcVars
        /\ \A p \in PaymentIndexes(last'.call.token) :
            \A i \in AccountIndexes(payments[p].AccountID) :
                IF accounts[i].Balance < payments[p].Amount
                THEN /\ last'.err = ErrNotEnoughBalance
                     /\ UNCHANGED svcVars
                ELSE /\ last'.err = Nil
                     /\ last'.ret.Token \notin PaymentIDs
                     /\ payments' = Append(payments,
                            Payment(last'.ret.Token, payments[p].AccountID,
                                    payments[p].Amount, payments[p].Category,
                                    PaymentStatusInProgress))
                     /\ accounts' = [accounts EXCEPT ![i].Balance =
                                                        @ - payments[p].Amount]
                     /\ UNCHANGED <<nextAccountID, favorites>>
    ]_vars

\* a Repeat of a payment that had failed has just succeeded
C6_Witness ==
    /\ Returned("Repeat")
    /\ last.err = Nil
    /\ Len(payments) = 2
    /\ payments[1].ID = last.call.token
    /\ payments[1].Status = PaymentStatusFail
    /\ payments[2].ID = last.ret.Token
    /\ payments[2].Status = PaymentStatusInProgress

FavoriteIndexes(id) == {f \in 1..Len(favorites) : favorites[f].ID = id}

\* C13: PayFromFavorite of an existing favorite appends exactly one Payment in
\* progress with a new ID and the AccountID, Amount and Category of the
\* favorite, and changes no balance, whatever the balance of the account is;
\* an unknown favoriteID fails with ErrFavoriteNotFound and changes nothing.
C13_PayFromFavorite ==
    [][last'.call.op = "PayFromFavorite" =>
        /\ FavoriteIndexes(last'.call.token) = {} =>
            /\ last'.err = ErrFavoriteNotFound
            /\ UNCHANGED svcVars
        /\ \A f \in FavoriteIndexes(last'.call.token) :
            /\ last'.err = Nil
            /\ last'.ret.Token \notin PaymentIDs
            /\ payments' = Append(payments,
                    Payment(last'.ret.Token, favorites[f].AccountID,
                            favorites[f].Amount, favorites[f].Category,
                            PaymentStatusInProgress))
            /\ UNCHANGED <<nextAccountID, accounts, favorites>>
    ]_vars

\* a PayFromFavorite has just succeeded on an account that holds less than
\* the amount of the payment
C13_Witness ==
    /\ Returned("PayFromFavorite")
    /\ last.err = Nil
    /\ \E p \in PaymentIndexes(last.ret.Token) :
        \E i \in AccountIndexes(payments[p].AccountID) :
            accounts[i].Balance < payments[p].Amount

\* C14: a payment enters the payments in progress, and through Pay, Repeat or
\* PayFromFavorite only; a payment held is never removed, and its ID,
\* AccountID, Amount and Category never change; its status changes through
\* Reject only and to FAIL only, so a failed payment stays failed.
C14_PaymentLifecycle ==
    [][/\ Len(payments') >= Len(payments)
       /\ \A p \in 1..Len(payments) :
            /\ payments'[p].ID = payments[p].ID
            /\ payments'[p].AccountID = payments[p].AccountID
            /\ payments'[p].Amount = payments[p].Amount
            /\ payments'[p].Category = payments[p].Category
            /\ payments'[p].Status # payments[p].Status =>
                /\ last'.call.op = "Reject"
                /\ last'.call.token = payments[p].ID
                /\ payments'[p].Status = PaymentStatusFail
            /\ payments[p].Status = PaymentStatusFail =>
                payments'[p].Status = PaymentStatusFail
       /\ \A p \in (Len(payments) + 1)..Len(payments') :
            /\ last'.call.op \in {"Pay", "Repeat", "PayFromFavorite"}
            /\ payments'[p].Status = PaymentStatusInProgress
    ]_vars

\* a Reject of the first payment has just returned, and the payment made
\* after it is still in progress
C14_Witness ==
    /\ Returned("Reject")
    /\ last.err = Nil
    /\ Len(payments) = 2
    /\ payments[1].ID = last.call.token
    /\ payments[1].Status = PaymentStatusFail
    /\ payments[2].Status = PaymentStatusInProgress
    /\ payments[2].AccountID = payments[1].AccountID

\* C15: in every state reachable from an empty Service by the operations in
\* memory the Amount of every payment is > 0, also of the payments that
\* PayFromFavorite makes from a favorite.
C15_AmountPositive ==
    \A p \in 1..Len(payments) : payments[p].Amount > 0

\* a PayFromFavorite has just made the second payment from the favorite of
\* the first
C15_Witness ==
    /\ Returned("PayFromFavorite")
    /\ last.err = Nil
    /\ Len(payments) = 2
    /\ Len(favorites) = 1
    /\ payments[2].ID = last.ret.Token
    /\ payments[2].Amount = favorites[1].Amount
    /\ payments[2].Amount = payments[1].Amount

Next ==
    \/ RegisterAccount(FewPhones)
    \/ Deposit(FewAccountIDs, FewAmounts)
    \/ Pay(FewAccountIDs, FewAmounts)
    \/ Reject(Held)
    \/ Repeat(Held)
    \/ FavoritePayment(Held)
    \/ PayFromFavorite(Held)
    \/ ExportToFile
    \/ ImportFromFile
    \/ Export
    \/ Import
    \/ Construct
    \/ Return

Spec == Init /\ [][Next]_vars

(***************************************************************************)
(* The program started on a dump directory that it did not write.          *)
(***************************************************************************)
InitDump ==
    /\ nextAccountID = 0
    /\ accounts = <<>>
    /\ payments = <<>>
    /\ favorites = <<>>
    /\ uuids = 0
    /\ file = NoFile
    /\ dir \in ExternalDirs
    /\ exported = NotExported
    /\ services = 1
    /\ deposited = NoDeposits
    /\ last = Idle

NextDump ==
    \/ RegisterAccount(FewPhones)
    \/ Deposit(FewAccountIDs, FewAmounts)
    \/ Pay(FewAccountIDs, FewAmounts)
    \/ Reject(Held)
    \/ Repeat(Held)
    \/ FavoritePayment(Held)
    \/ PayFromFavorite(Held)
    \/ Export
    \/ Import
    \/ Construct
    \/ Return

SpecDump == InitDump /\ [][NextDump]_vars

(***************************************************************************)
(* Import(dir) on any Service and any dump directory: the Service and the  *)
(* directory are drawn from the Services of at most MaxDrawn accounts, one *)
(* payment and one favorite (IDs and phones may repeat, the records of the *)
(* directory may differ from those the Service holds under the same ID),   *)
(* and from the directories Export writes for them, and one whose accounts *)
(* file has a record that is no number.                                    *)
(***************************************************************************)
RECURSIVE SeqsUpTo(_, _)
SeqsUpTo(S, n) ==
    IF n = 0 THEN {<<>>}
    ELSE SeqsUpTo(S, n - 1)
            \cup {Append(q, x) : q \in {r \in SeqsUpTo(S, n - 1) : Len(r) = n - 1},
                                 x \in S}

DrawnAccounts ==
    {Account(1, <<"a">>, 0), Account(2, <<"b">>, 1), Account(2, <<"a">>, 2)}

DrawnPaymentLists ==
    {<<>>,
     <<Payment(<<"p">>, 1, 1, <<"f">>, PaymentStatusInProgress)>>,
     <<Payment(<<"p">>, 2, 2, <<"g">>, PaymentStatusFail)>>}

DrawnFavoriteLists ==
    {<<>>,
     <<Favorite(<<"q">>, 1, <<"n">>, 1, <<"f">>)>>,
     <<Favorite(<<"q">>, 2, <<"m">>, 2, <<"g">>)>>}

DrawnDirs ==
    {ExportOp(Service(0, al, pl, fl), EmptyDir) :
        al \in SeqsUpTo(DrawnAccounts, MaxDrawn),
        pl \in DrawnPaymentLists, fl \in DrawnFavoriteLists}
    \cup {Dir(File(<<"1", ";", "a", ";", "0", "\n",
                     "k", ";", "b", ";", "1", "\n",
                     "2", ";", "b", ";", "1", "\n">>),
              File(PaymentRecord(Payment(<<"p">>, 1, 1, <<"f">>,
                                         PaymentStatusInProgress))),
              NoFile)}

InitImport ==
    /\ nextAccountID \in {0, 3}
    /\ accounts \in SeqsUpTo(DrawnAccounts, MaxDrawn)
    /\ payments \in DrawnPaymentLists
    /\ favorites \in DrawnFavoriteLists
    /\ uuids = 0
    /\ file = NoFile
    /\ dir \in DrawnDirs
    /\ exported = NotExported
    /\ services = 1
    /\ deposited = NoDeposits
    /\ last = Idle

NextImport ==
    \/ Import
    \/ ImportAgain
    \/ Return

SpecImport == InitImport /\ [][NextImport]_vars

(***************************************************************************)
(* The claims on export and import.                                        *)
(***************************************************************************)
NoDelimiter(str) == \A k \in 1..Len(str) : str[k] \notin {";", "\n"}

NoDelimiters(s) ==
    /\ \A i \in 1..Len(s.accounts) : NoDelimiter(s.accounts[i].Phone)
    /\ \A i \in 1..Len(s.payments) :
        /\ NoDelimiter(s.payments[i].ID)
        /\ NoDelimiter(s.payments[i].Category)
        /\ NoDelimiter(s.payments[i].Status)
    /\ \A i \in 1..Len(s.favorites) :
        /\ NoDelimiter(s.favorites[i].ID)
        /\ NoDelimiter(s.favorites[i].Name)
        /\ NoDelimiter(s.favorites[i].Category)

\* a new Service imports a directory that was new to the Export that wrote it
RoundTrip ==
    /\ last'.call.op = "Import"
    /\ Self = NewService
    /\ exported.fresh

MaxID(accs) ==
    IF accs = <<>> THEN 0
    ELSE CHOOSE m \in {accs[i].ID : i \in 1..Len(accs)} :
            \A i \in 1..Len(accs) : accs[i].ID <= m

IsPrefix(a, b) == Len(a) <= Len(b) /\ SubSeq(b, 1, Len(a)) = a

\* C7: for any reachable Service whose strings hold no ";" and no newline,
\* Export to a new directory and Import of it into a new Service give that
\* Service the accounts, payments and favorites of the exporting one, record
\* for record and in the same order.
C7_RoundTrip ==
    [][(RoundTrip /\ NoDelimiters(exported.s)) =>
        /\ accounts' = exported.s.accounts
        /\ payments' = exported.s.payments
        /\ favorites' = exported.s.favorites
    ]_vars

\* C8: after Export of a reachable Service to a new directory and Import into
\* a new Service, nextAccountID is the greatest account ID imported (so that
\* the IDs RegisterAccount returns from then on are those of no account held).
C8_NextAccountIDIsMax ==
    [][RoundTrip => nextAccountID' = MaxID(accounts')]_vars

\* C9: in every reachable state no two accounts have the same ID and no two
\* have the same Phone.
C9_AccountsUnique ==
    \A i, j \in 1..Len(accounts) :
        i # j => /\ accounts[i].ID # accounts[j].ID
                 /\ accounts[i].Phone # accounts[j].Phone

\* C10: Import of a dump directory removes and changes no entry the Service
\* holds, and Import of the same directory once more leaves the accounts,
\* payments, favorites and nextAccountID as the first Import left them.
C10_ImportAdditiveIdempotent ==
    [][/\ last'.call.op \in {"Import", "ImportAgain"} =>
            /\ IsPrefix(accounts, accounts')
            /\ IsPrefix(payments, payments')
            /\ IsPrefix(favorites, favorites')
       /\ last'.call.op = "ImportAgain" => UNCHANGED svcVars
    ]_vars

\* the second Import has just returned, after a first one that added an
\* account to those held, a payment and a favorite
C10_Witness ==
    /\ Returned("ImportAgain")
    /\ last.err = Nil
    /\ nextAccountID \in {1, 2}
    /\ Len(accounts) >= 2
    /\ Len(payments) = 1
    /\ Len(favorites) = 1

(***************************************************************************)
(* Import(dir) of directories that other programs wrote: a Service that    *)
(* registers accounts and imports one dump directory after another.        *)
(***************************************************************************)
ForeignDirs ==
    ExternalDirs
        \cup {Dir(File(<<"2", ";", "y", ";", "0", "\n">>), NoFile, NoFile),
              Dir(File(<<"1", ";", "z", ";", "0", "\n">>), NoFile, NoFile)}

\* Import(d) of a directory that stays as it is
ImportForeign ==
    \E d \in ForeignDirs :
        Commit(Call("Import", 0, 0, <<>>, <<>>, <<>>), ImportOp(Self, d))

NextForeign ==
    \/ RegisterAccount(Phones)
    \/ Deposit(FewAccountIDs, FewAmounts)
    \/ ImportForeign
    \/ Return

SpecForeign == Init /\ [][NextForeign]_vars

\* C11: no call of an operation of the Service leaves nextAccountID smaller
\* than it was before the call.
C11_NextAccountIDMonotone ==
    [][nextAccountID' >= nextAccountID]_vars

(***************************************************************************)
(* Services, one after another, that export to and import from one         *)
(* directory: accounts of two phones, payments from either account.        *)
(***************************************************************************)
NextDir ==
    \/ RegisterAccount(Phones)
    \/ Deposit(FewAccountIDs, FewAmounts)
    \/ Pay(FewAccountIDs, FewAmounts)
    \/ Reject(Held)
    \/ Export
    \/ Import
    \/ Construct
    \/ Return

SpecDir == Init /\ [][NextDir]_vars

\* C12: Reject of an existing payment whose AccountID is the ID of no account
\* returns ErrAccountNotFound: no nil error, no panic.
C12_RejectOrphan ==
    [][(/\ last'.call.op = "Reject"
        /\ \E p \in PaymentIndexes(last'.call.token) :
                AccountIndexes(payments[p].AccountID) = {})
            => last'.err = ErrAccountNotFound
    ]_vars

Members(seq) == {seq[i] : i \in 1..Len(seq)}

\* C18: in every state reachable by the operations in memory and by Import
\* of directories that Export wrote, the AccountID of every payment and of
\* every favorite is the ID of an account of the Service.
C18_ReferentialIntegrity ==
    /\ \A p \in 1..Len(payments) : AccountIndexes(payments[p].AccountID) # {}
    /\ \A f \in 1..Len(favorites) : AccountIndexes(favorites[f].AccountID) # {}

\* C19: when Export(dir) has returned, a new Service that imports dir holds
\* no account, payment or favorite that the exporting Service does not hold,
\* also where dir held the files of an earlier Export.
C19_ExportDescribesService ==
    [][last'.call.op = "Export" =>
        LET imported == ImportOp(NewService, dir').s
        IN  /\ Members(imported.accounts) \subseteq Members(accounts)
            /\ Members(imported.payments) \subseteq Members(payments)
            /\ Members(imported.favorites) \subseteq Members(favorites)
    ]_vars

(***************************************************************************)
(* FindAccountByID called by the user of the package, between the calls    *)
(* that make accounts and change balances; ImportFromFile makes accounts   *)
(* of one ID.                                                              *)
(***************************************************************************)
FindAccount(ids) ==
    \E accountID \in ids :
        LET i == FindAccountByID(Self, accountID)
        IN  /\ last = Idle
            /\ last' = [call |-> Call("FindAccountByID", accountID, 0, <<>>, <<>>, <<>>),
                        err |-> IF i = 0 THEN ErrAccountNotFound ELSE Nil,
                        ret |-> IF i = 0 THEN NoRet ELSE RetFound(accounts[i])]
            /\ UNCHANGED <<svcVars, uuids, fsVars, services, deposited>>

NextFind ==
    \/ RegisterAccount(Phones)
    \/ Deposit(AccountIDs, FewAmounts)
    \/ Pay(FewAccountIDs, {1})
    \/ ExportToFile
    \/ ImportFromFile
    \/ FindAccount(AccountIDs)
    \/ Return

SpecFind == Init /\ [][NextFind]_vars

\* C16: FindAccountByID(id) changes nothing; where an account has the ID it
\* returns the stored account of that ID (the first, with the balance the
\* deposits and payments so far have left it), and it fails with
\* ErrAccountNotFound exactly where no account has the ID.
C16_FindAccountByID ==
    [][last'.call.op = "FindAccountByID" =>
        LET found == AccountIndexes(last'.call.accountID)
        IN  /\ UNCHANGED <<svcVars, fsVars>>
            /\ (last'.err = ErrAccountNotFound) <=> (found = {})
            /\ found # {} =>
                /\ last'.err = Nil
                /\ \E i \in found :
                    /\ \A j \in found : i <= j
                    /\ last'.ret.Account = accounts[i]
    ]_vars

\* FindAccountByID has just returned the second account, with what a Deposit
\* and a Pay have left of its balance
C16_Witness ==
    /\ Returned("FindAccountByID")
    /\ last.err = Nil
    /\ last.ret.Account = Account(2, <<"b">>, 1)
    /\ accounts[2] = last.ret.Account
    /\ \E p \in 1..Len(payments) : payments[p].AccountID = 2

(***************************************************************************)
(* The ledger: accounts, deposits, payments, repeated payments and         *)
(* rejections, each payment rejected at most once; PayFromFavorite is not  *)
(* called.                                                                 *)
(***************************************************************************)
NextLedger ==
    \/ RegisterAccount(Phones)
    \/ DepositRecorded(AccountIDs, Amounts)
    \/ Pay(AccountIDs, Amounts)
    \/ Repeat(Tokens)
    \/ RejectOnce(Tokens)
    \/ Return

SpecLedger == Init /\ [][NextLedger]_vars

\* the sum of the Amounts of the payments in progress of an account ID
RECURSIVE InProgressSum(_, _)
InProgressSum(pays, id) ==
    IF pays = <<>> THEN 0
    ELSE (IF Head(pays).AccountID = id /\ Head(pays).Status = PaymentStatusInProgress
          THEN Head(pays).Amount ELSE 0)
         + InProgressSum(Tail(pays), id)

\* C17: in every state reachable from an empty Service by RegisterAccount,
\* Deposit, Pay, Repeat and Reject, each payment rejected at most once, the
\* Balance of each account is the sum of the deposits it has taken less the
\* sum of the Amounts of its payments in progress.
C17_MoneyConservation ==
    \A i \in 1..Len(accounts) :
        accounts[i].Balance =
            deposited[accounts[i].ID] - InProgressSum(payments, accounts[i].ID)

\* an account has taken two deposits, its first payment has just been
\* rejected and its second is in progress
C17_Witness ==
    /\ Returned("Reject")
    /\ last.err = Nil
    /\ Len(payments) = 2
    /\ payments[1].ID = last.call.token
    /\ payments[1].Status = PaymentStatusFail
    /\ payments[2].Status = PaymentStatusInProgress
    /\ payments[2].AccountID = payments[1].AccountID
    /\ deposited[payments[1].AccountID] = 3
    /\ \E i \in AccountIndexes(payments[1].AccountID) : accounts[i].Balance = 2

(***************************************************************************)
(* Balances and amounts over the whole range of Money: a Service with one  *)
(* account of any balance >= 0 and one payment of any amount > 0 (Deposit  *)
(* and Pay make each of them), then Deposit and Reject calls.              *)
(***************************************************************************)
InitMoney ==
    /\ nextAccountID = 1
    /\ \E b \in 0..MaxMoney : accounts = <<Account(1, <<"a">>, b)>>
    /\ \E a \in 1..MaxMoney :
            payments = <<Payment(NewUUID(1), 1, a, <<"f">>, PaymentStatusInProgress)>>
    /\ favorites = <<>>
    /\ uuids = 1
    /\ file = NoFile
    /\ dir = EmptyDir
    /\ exported = NotExported
    /\ services = 1
    /\ deposited = NoDeposits
    /\ last = Idle

DepositMoney ==
    \E accountID \in FewAccountIDs, amount \in 0..MaxMoney :
        /\ Apply(Call("Deposit", accountID, amount, <<>>, <<>>, <<>>),
                 DepositOp(Self, accountID, amount))
        /\ UNCHANGED deposited

RejectMoney ==
    \E paymentID \in Tokens :
        /\ Apply(Call("Reject", 0, 0, paymentID, <<>>, <<>>),
                 RejectOp(Self, paymentID))
        /\ UNCHANGED deposited

NextMoney ==
    \/ DepositMoney
    \/ RejectMoney
    \/ Return

SpecMoney == InitMoney /\ [][NextMoney]_vars

\* C20: a Deposit or a Reject that succeeds on an account of balance b >= 0
\* with an amount a > 0 leaves the balance b + a, the sum of the integers:
\* never a smaller balance, never a wrapped one.
C20_NoOverflow ==
    [][(last'.call.op \in {"Deposit", "Reject"} /\ last'.err = Nil) =>
        \A i \in 1..Len(accounts) :
            LET a == IF last'.call.op = "Deposit"
                     THEN IF accounts[i].ID = last'.call.accountID
                          THEN last'.call.amount ELSE 0
                     ELSE IF \E p \in PaymentIndexes(last'.call.token) :
                                payments[p].AccountID = accounts[i].ID
                          THEN payments[CHOOSE p \in PaymentIndexes(last'.call.token) :
                                            TRUE].Amount
                          ELSE 0
            IN  (accounts[i].Balance >= 0 /\ a > 0) =>
                    accounts'[i].Balance = accounts[i].Balance + a
    ]_vars

====
